---- MODULE Spec2Model ----
(***************************************************************************)
(* A model of the database access layer of LvJing-Agentproject:            *)
(*   src/database/connection.py  (DatabaseConfig, DatabaseConnection,      *)
(*                                PooledConnection, ConnectionPool)        *)
(*   src/data analysis agent/database/query_builder.py (QueryBuilder)      *)
(*                                                                         *)
(* The module holds several specifications over one set of variables:      *)
(*   SpecRace  get_pool() run by concurrent callers, one step per          *)
(*             statement of the method;                                    *)
(*   SpecLend  SpecRace with the callers borrowing from their pool;        *)
(*   SpecSeq   get_pool() run by one caller after another;                 *)
(*   SpecConn  connect, disconnect, execute_query and execute_update on    *)
(*             two handles of one database;                                *)
(*   SpecScope the same calls with get_db_context blocks around them;      *)
(*   SpecClose the same calls and close_all_pools();                       *)
(*   SpecProbe the same calls and is_connected();                          *)
(*   SpecQB    where() and build() on one QueryBuilder;                    *)
(*   SpecBuilder select(), where(), order_by_field(), limit(), build();    *)
(*   SpecSelectQuery build_select_query();                                 *)
(*   SpecSchema get_indexes() of schema.py on the catalog of one table.    *)
(* Variables a specification does not use keep their initial value.        *)
(***************************************************************************)
EXTENDS Integers, Sequences, FiniteSets, TLC

VARIABLES
    registry,   \* ConnectionPool._pools: pool key -> driver pool instance
    nPools,     \* number of driver pool instances created so far
    poolSize,   \* driver pool instance -> the pool_size it was created with
    objCfg,     \* ConnectionPool object -> self.config (NoObj: not constructed)
    objPool,    \* ConnectionPool object -> self._pool
    pc,         \* ConnectionPool object -> position of its caller in get_pool()
    held,       \* ConnectionPool object -> what its last get_pool() returned
    variant,    \* handle -> "pooled" (PooledConnection) or "direct"
    conn,       \* handle -> self._connection
    poolConn,   \* handle -> self._pool_conn
    queue,      \* driver pool instance -> its queue of idle connections
    phys,       \* physical connection -> "none", "open", "dead" or "closed"
    pending,    \* physical connection -> uncommitted statements of its session
    committed,  \* number of committed update statements in the database
    handed,     \* handle -> times its current borrow went to return_connection
    scope,      \* handle -> "in" while a get_db_context block is running on it
    before,     \* handle -> the pool's available count its scope started from
    last,       \* the last call made: operation, handle, outcome, what it did
    qb,         \* a QueryBuilder object: its attributes
    qlast,      \* the last call made on the QueryBuilder and its outcome
    statistics, \* the rows INFORMATION_SCHEMA.STATISTICS holds for the table
    indexes     \* what the last get_indexes() call returned

poolVars == <<registry, nPools, poolSize, objCfg, objPool, pc, held>>

connVars ==
    <<variant, conn, poolConn, queue, phys, pending, committed, handed,
      scope, before, last>>

qbVars == <<qb, qlast>>

schemaVars == <<statistics, indexes>>

vars == <<poolVars, connVars, qbVars, schemaVars>>

----------------------------------------------------------------------------
(* Bounds *)

\* ConnectionPool objects (one per caller) that exist at the same time
NumObjs == 2
\* driver pool instances created in one run
MaxPools == 2
\* pool_size of the configuration the handles of SpecConn share
ConnPoolSize == 1
\* update statements committed in one run
MaxCommitted == 1
\* uncommitted statements of one session
MaxPending == 1
\* conditions added to one QueryBuilder
MaxConds == 2
\* order_by_field() calls accepted on one builder
MaxOrder == 1
\* columns of one index
MaxIndexColumns == 2

----------------------------------------------------------------------------
(* DatabaseConfig, connection.py:19-36 *)

\* Python's None, kept apart from every str value
None == "<None>"
\* no driver pool instance: the value of self._pool before get_pool()
NoPool == 0

Hosts == {"db"}
Ports == {3306}
Users == {"app", "app:x"}
Databases == {None, "None", "y", "x:y"}
PoolSizes == {1, 2}

DatabaseConfig ==
    [host : Hosts, port : Ports, user : Users, database : Databases,
     pool_size : PoolSizes]

\* the configurations the concurrent callers of SpecRace are given
RaceConfigs == {config \in DatabaseConfig : config.user = "app"}

\* str(v) as an f-string replacement field renders it: None gives "None"
PyStr(v) == IF v = None THEN "None" ELSE v

\* ConnectionPool._get_pool_key:
\*   f"{config.host}:{config.port}:{config.user}:{config.database}"
GetPoolKey(config) ==
    config.host \o ":" \o ToString(config.port) \o ":" \o config.user
        \o ":" \o PyStr(config.database)

\* the (host, port, user, database) tuple the key is meant to identify
Fingerprint(config) ==
    <<config.host, config.port, config.user, config.database>>

\* no ConnectionPool object in this slot
NoObj ==
    [host |-> None, port |-> 0, user |-> None, database |-> None,
     pool_size |-> 0]

Objs == 1..NumObjs
PoolIds == 1..MaxPools

\* what a call gave its caller: nothing yet, a value, or an exception
NoResult == [kind |-> "none", val |-> NoPool]
Returned(v) == [kind |-> "return", val |-> v]
Raised(e) == [kind |-> e, val |-> NoPool]

----------------------------------------------------------------------------
(* The MySQL driver as connection.py uses it (mysql.connector, pooling) *)

\* no physical connection
NoCnx == 0
\* the connection handles of a run: two clients of one database
Handles == {1, 2}

\* physical connections of the driver pool, and those opened directly
\* every driver pool instance has its own physical connections: instance
\* id owns PoolBlock numbers, of which it opens the first pool_size
PoolBlock ==
    CHOOSE n \in PoolSizes \cup {ConnPoolSize} :
        \A m \in PoolSizes \cup {ConnPoolSize} : m <= n
PoolOf(p) == ((p - 1) \div PoolBlock) + 1
PoolConns == 1..(MaxPools * PoolBlock)
\* the physical connection a direct handle has, or had last
DirectConn(h) == MaxPools * PoolBlock + h
AllConns == PoolConns \cup {DirectConn(h) : h \in Handles}

\* a reference held in _connection / _pool_conn: None, or a connection
\* object (for a pooled handle the driver's PooledMySQLConnection wrapper,
\* whose _cnx is NoCnx once it was closed)
NoneConn == [set |-> FALSE, cnx |-> NoCnx]
Wrap(p) == [set |-> TRUE, cnx |-> p]

\* what the driver and the server do in one call: whether the server can
\* be reached (pool creation, handshake, reconnect), the statement, the
\* commit, and the row count the cursor reports
DriverChoices ==
    [net : {"ok", "fail"}, stmt : {"ok", "error", "lost"},
     commit : {"ok", "error", "lost"}, rows : {1, 2}]

\* the choices that can differ in their effect: a call that sends no
\* statement, one that sends a statement, one that sends it and commits
ConnectChoices ==
    {d \in DriverChoices : d.stmt = "ok" /\ d.commit = "ok" /\ d.rows = 1}
QueryChoices ==
    {d \in DriverChoices : d.commit = "ok" /\ d.rows = 1}
UpdateChoices ==
    {d \in DriverChoices :
        /\ d.stmt # "ok" => d.commit = "ok"
        /\ (d.stmt # "ok" \/ d.commit # "ok") => d.rows = 1}

\* f with f[k] = v
Upd(f, k, v) == [x \in DOMAIN f |-> IF x = k THEN v ELSE f[x]]

\* the outcome of an operation: the state it leaves, the exception it
\* raises ("none": it returns) and the value it returns
Ok(st) == [st |-> st, exc |-> "none", val |-> 0]
OkVal(st, v) == [st |-> st, exc |-> "none", val |-> v]
Exc(st, e) == [st |-> st, exc |-> e, val |-> 0]

\* what one call did, kept for the claims
NoLog ==
    [commits |-> 0, rollbacks |-> 0, used |-> "none", opened |-> 0,
     cursor |-> "none"]

\* pooling.MySQLConnectionPool(pool_size = size, ...), line 309: the driver
\* opens size connections and queues them
NewDriverPool(st, id, size) ==
    LET first == (id - 1) * PoolBlock IN
    [st EXCEPT !.queue = Upd(@, id, [j \in 1..size |-> first + j]),
               !.phys = [p \in DOMAIN st.phys |->
                            IF p \in (first + 1)..(first + size) THEN "open"
                            ELSE st.phys[p]]]

\* pool.get_connection() of the driver, line 330, on pool instance id: the
\* head of its queue, reconnected when it is not live; PoolError when the
\* queue is empty
DriverGetConnection(st, id, d) ==
    IF id \notin DOMAIN st.queue \/ st.queue[id] = << >>
    THEN Exc(st, "Error")
    ELSE LET p == Head(st.queue[id]) IN
         IF st.phys[p] = "open"
         THEN OkVal([st EXCEPT !.queue = Upd(@, id, Tail(@[id]))], p)
         ELSE IF d.net = "ok"
              THEN OkVal([st EXCEPT !.queue = Upd(@, id, Tail(@[id])),
                                    !.phys = Upd(@, p, "open"),
                                    !.pending = Upd(@, p, 0)], p)
              ELSE Exc([st EXCEPT !.queue =
                          Upd(@, id, Append(Tail(@[id]), p))], "Error")

\* PooledMySQLConnection.close(), line 348: the session is reset and the
\* physical connection goes back to the queue of the pool instance it came
\* from; the wrapper lets go of it
DriverPooledClose(st, h) ==
    LET p == st.poolConn[h].cnx IN
    [st EXCEPT !.queue = Upd(@, PoolOf(p), Append(@[PoolOf(p)], p)),
               !.pending = Upd(@, p, 0),
               !.poolConn = Upd(@, h, Wrap(NoCnx)),
               !.conn = Upd(@, h, Wrap(NoCnx))]

\* connection.is_connected() of the driver on what a reference holds:
\* a closed wrapper has no connection to ask (AttributeError)
DriverIsConnected(st, ref) ==
    IF ref.cnx = NoCnx THEN Exc(st, "AttributeError")
    ELSE OkVal(st, st.phys[ref.cnx] = "open")

----------------------------------------------------------------------------
(* ConnectionPool.get_pool, connection.py:293-318 *)

\* ConnectionPool._pools[key] = pool
RegistryPut(reg, key, pool) ==
    [k \in DOMAIN reg \cup {key} |-> IF k = key THEN pool ELSE reg[k]]

\* get_connection_pool(config): a new ConnectionPool object, _pool = None
Construct(o, config) ==
    /\ objCfg[o] = NoObj
    /\ objCfg' = [objCfg EXCEPT ![o] = config]
    /\ objPool' = [objPool EXCEPT ![o] = NoPool]
    /\ held' = [held EXCEPT ![o] = NoResult]
    /\ UNCHANGED <<registry, nPools, poolSize, pc>>
    /\ UNCHANGED <<connVars, qbVars, schemaVars>>

\* line 300: if self._pool_key not in ConnectionPool._pools
Check(o) ==
    /\ pc[o] = "idle"
    /\ objCfg[o] # NoObj
    /\ pc' = [pc EXCEPT ![o] =
                IF GetPoolKey(objCfg[o]) \notin DOMAIN registry
                THEN "create" ELSE "reuse"]
    /\ held' = [held EXCEPT ![o] = NoResult]
    /\ UNCHANGED <<registry, nPools, poolSize, objCfg, objPool>>
    /\ UNCHANGED <<connVars, qbVars, schemaVars>>

\* line 309: self._pool = pooling.MySQLConnectionPool(**pool_config), which
\* opens the pool's connections
CreateOk(o) ==
    /\ pc[o] = "create"
    /\ nPools < MaxPools
    /\ nPools' = nPools + 1
    /\ poolSize' = [poolSize EXCEPT ![nPools + 1] = objCfg[o].pool_size]
    /\ objPool' = [objPool EXCEPT ![o] = nPools + 1]
    /\ pc' = [pc EXCEPT ![o] = "store"]
    /\ \E r \in {NewDriverPool([queue |-> queue, phys |-> phys],
                               nPools + 1, objCfg[o].pool_size)} :
          queue' = r.queue /\ phys' = r.phys
    /\ UNCHANGED <<registry, objCfg, held>>
    /\ UNCHANGED <<variant, conn, poolConn, pending, committed, handed,
                   scope, before, last, qbVars, schemaVars>>

\* lines 312-314: the driver raises Error, which get_pool re-raises
CreateFail(o) ==
    /\ pc[o] = "create"
    /\ pc' = [pc EXCEPT ![o] = "idle"]
    /\ held' = [held EXCEPT ![o] = Raised("Error")]
    /\ UNCHANGED <<registry, nPools, poolSize, objCfg, objPool>>
    /\ UNCHANGED <<connVars, qbVars, schemaVars>>

\* lines 310, 318: ConnectionPool._pools[self._pool_key] = self._pool; return
Store(o) ==
    /\ pc[o] = "store"
    /\ registry' = RegistryPut(registry, GetPoolKey(objCfg[o]), objPool[o])
    /\ pc' = [pc EXCEPT ![o] = "idle"]
    /\ held' = [held EXCEPT ![o] = Returned(objPool[o])]
    /\ UNCHANGED <<nPools, poolSize, objCfg, objPool>>
    /\ UNCHANGED <<connVars, qbVars, schemaVars>>

\* lines 316, 318: self._pool = ConnectionPool._pools[self._pool_key]; return
Reuse(o) ==
    /\ pc[o] = "reuse"
    /\ GetPoolKey(objCfg[o]) \in DOMAIN registry
    /\ objPool' = [objPool EXCEPT ![o] = registry[GetPoolKey(objCfg[o])]]
    /\ pc' = [pc EXCEPT ![o] = "idle"]
    /\ held' = [held EXCEPT ![o] = Returned(registry[GetPoolKey(objCfg[o])])]
    /\ UNCHANGED <<registry, nPools, poolSize, objCfg>>
    /\ UNCHANGED <<connVars, qbVars, schemaVars>>

\* lines 327-332 of ConnectionPool.get_connection(): get_pool() has
\* returned, and the caller takes a connection from the pool it was given
Borrow(o, d) ==
    /\ pc[o] = "idle"
    /\ held[o].kind = "return"
    /\ \E r \in {DriverGetConnection(
                    [queue |-> queue, phys |-> phys, pending |-> pending],
                    objPool[o], d)} :
          /\ r.exc = "none"
          /\ queue' = r.st.queue
          /\ phys' = r.st.phys
          /\ pending' = r.st.pending
    /\ UNCHANGED <<poolVars, variant, conn, poolConn, committed, handed,
                   scope, before, last, qbVars, schemaVars>>


----------------------------------------------------------------------------
(* ConnectionPool.get_pool / get_connection / return_connection *)

\* a failed creation that leaves an entry without a pool under the key
CreateFailedStoresEntry(st, key) ==
    [st EXCEPT !.registry = RegistryPut(@, key, NoPool)]

\* lines 309 and 312-314: the constructor raised, so neither self._pool
\* nor the registry was assigned
CreateFailed(st, key) == st

\* get_pool(), lines 293-318, on the state st
GetPoolS(st, o, d) ==
    LET key == GetPoolKey(objCfg[o]) IN
    IF key \notin DOMAIN st.registry
    THEN IF d.net = "ok"
         THEN LET id == st.nPools + 1 IN
              [st |-> NewDriverPool(
                         [st EXCEPT
                            !.nPools = id,
                            !.poolSize = Upd(@, id, objCfg[o].pool_size),
                            !.objPool = Upd(@, o, id),
                            !.registry = RegistryPut(@, key, id)],
                         id, objCfg[o].pool_size),
               exc |-> "none", val |-> id, created |-> TRUE]
         ELSE [st |-> CreateFailed(st, key), exc |-> "Error",
               val |-> NoPool, created |-> FALSE]
    ELSE [st |-> [st EXCEPT !.objPool = Upd(@, o, st.registry[key])],
          exc |-> "none", val |-> st.registry[key], created |-> FALSE]

\* ConnectionPool.get_connection(), lines 320-335
PoolGetConnection(st, o, d) ==
    LET g == GetPoolS(st, o, d) IN
    IF g.exc # "none" THEN Exc(g.st, g.exc)
    ELSE DriverGetConnection(g.st, g.val, d)

\* ConnectionPool.return_connection(conn), lines 337-351, for the wrapper
\* handle h holds
ReturnConnection(st, h) ==
    LET s0 == [st EXCEPT !.handed = Upd(@, h, IF @[h] < 2 THEN @[h] + 1 ELSE 2)]
        live == DriverIsConnected(s0, s0.poolConn[h])
    IN  IF ~s0.poolConn[h].set THEN Ok(s0)
        ELSE IF live.exc # "none" THEN Exc(s0, live.exc)
        ELSE IF live.val THEN Ok(DriverPooledClose(s0, h))
        ELSE Ok(s0)

----------------------------------------------------------------------------
(* DatabaseConnection and PooledConnection *)

\* DatabaseConnection.is_connected(), lines 124-135
DirectIsConnected(st, h) ==
    IF ~st.conn[h].set THEN FALSE
    ELSE LET r == DriverIsConnected(st, st.conn[h]) IN
         IF r.exc # "none" THEN FALSE ELSE r.val

\* PooledConnection.is_connected(), lines 254-261
PooledIsConnected(st, h) ==
    IF ~st.poolConn[h].set THEN FALSE
    ELSE LET r == DriverIsConnected(st, st.poolConn[h]) IN
         IF r.exc # "none" THEN FALSE ELSE r.val

IsConnectedS(st, h) ==
    IF variant[h] = "pooled" THEN PooledIsConnected(st, h)
    ELSE DirectIsConnected(st, h)

\* an is_connected() without the try / except around the probe
IsConnectedUnguarded(st, h, probe) ==
    IF probe = "raise" THEN Exc(st, "Exception")
    ELSE OkVal(st, IF IsConnectedS(st, h) THEN 1 ELSE 0)

\* is_connected() as a call of its own, lines 124-135 and 254-261, with the
\* outcome of the driver's probe: it answers for the state of the
\* connection, or it raises; the result is 1 for True and 0 for False
IsConnectedProbe(st, h, probe) ==
    LET ref == IF variant[h] = "pooled" THEN st.poolConn[h] ELSE st.conn[h]
    IN  IF ~ref.set THEN OkVal(st, 0)
        ELSE IF probe = "raise" THEN OkVal(st, 0)
        ELSE OkVal(st, IF IsConnectedS(st, h) THEN 1 ELSE 0)

\* DatabaseConnection.connect(), lines 94-111
DirectConnect(st, h, d) ==
    IF DirectIsConnected(st, h) THEN Ok(st)
    ELSE IF d.net = "ok"
         THEN Ok([st EXCEPT !.phys = Upd(@, DirectConn(h), "open"),
                            !.pending = Upd(@, DirectConn(h), 0),
                            !.conn = Upd(@, h, Wrap(DirectConn(h))),
                            !.log.opened = @ + 1])
         ELSE Exc(st, "ConnectionError")

\* a connect() that borrows without the test of line 241
PooledConnectAlways(st, h, d) ==
    LET r == PoolGetConnection(st, h, d) IN
    IF r.exc # "none" THEN Exc(r.st, r.exc)
    ELSE Ok([r.st EXCEPT !.poolConn = Upd(@, h, Wrap(r.val)),
                         !.conn = Upd(@, h, Wrap(r.val)),
                         !.handed = Upd(@, h, 0),
                         !.log.opened = @ + 1])

\* PooledConnection.connect(), lines 239-244
PooledConnect(st, h, d) ==
    IF ~st.poolConn[h].set
    THEN LET r == PoolGetConnection(st, h, d) IN
         IF r.exc # "none" THEN Exc(r.st, r.exc)
         ELSE Ok([r.st EXCEPT !.poolConn = Upd(@, h, Wrap(r.val)),
                              !.conn = Upd(@, h, Wrap(r.val)),
                              !.handed = Upd(@, h, 0),
                              !.log.opened = @ + 1])
    ELSE Ok(st)

ConnectS(st, h, d) ==
    IF variant[h] = "pooled" THEN PooledConnect(st, h, d)
    ELSE DirectConnect(st, h, d)

\* DatabaseConnection.disconnect(), lines 113-122
DirectDisconnect(st, h) ==
    IF st.conn[h].set /\ DirectIsConnected(st, h)
    THEN Ok([st EXCEPT !.phys = Upd(@, st.conn[h].cnx, "closed"),
                       !.pending = Upd(@, st.conn[h].cnx, 0),
                       !.conn = Upd(@, h, NoneConn)])
    ELSE Ok(st)

\* a disconnect() without the assignments of lines 250-251
PooledDisconnectKeeps(st, h) ==
    IF st.poolConn[h].set THEN ReturnConnection(st, h) ELSE Ok(st)

\* PooledConnection.disconnect(), lines 246-252
PooledDisconnect(st, h) ==
    IF st.poolConn[h].set
    THEN LET r == ReturnConnection(st, h) IN
         IF r.exc # "none" THEN r
         ELSE Ok([r.st EXCEPT !.poolConn = Upd(@, h, NoneConn),
                              !.conn = Upd(@, h, NoneConn)])
    ELSE Ok(st)

DisconnectS(st, h) ==
    IF variant[h] = "pooled" THEN PooledDisconnect(st, h)
    ELSE DirectDisconnect(st, h)

\* lines 151-152 and 190-191: if not self.is_connected(): self.connect()
LazyConnect(st, h, d) ==
    IF ~IsConnectedS(st, h) THEN ConnectS(st, h, d) ELSE Ok(st)

\* fetch = None of execute_query returns None
NoRows == -1

\* the statements a caller passes: a read, or a write (execute_query with
\* fetch = None runs statements that return no rows, line 170)
Queries == {"select", "insert"}

\* the result set the statement left on an unbuffered cursor after the
\* fetch of lines 160-170: an insert has none; fetchall() reads it to its
\* end; fetchone() reads to the end only when there is at most one row;
\* with fetch None nothing is read
UnreadResult(query, fetch, rows) ==
    /\ query = "select"
    /\ \/ fetch = None
       \/ fetch = "one" /\ rows >= 2

\* cursor.close() in the finally clause, lines 173-176 and 207-209: the
\* driver refuses to close a cursor whose result has unread rows
\* (InternalError, "Unread result found") and the cursor stays open
CursorClose(u, unread) ==
    IF unread THEN [st |-> [u EXCEPT !.log.cursor = "open"], exc |-> "Error"]
    ELSE [st |-> [u EXCEPT !.log.cursor = "closed"], exc |-> "none"]

\* DatabaseConnection.execute_query(query, params, fetch), lines 137-176;
\* the rows read are the committed state and the session's own changes;
\* a write stays uncommitted, execute_query never commits
ExecuteQueryS(st, h, d, query, fetch) ==
    LET c == LazyConnect(st, h, d) IN
    IF c.exc # "none" THEN c
    ELSE LET s == c.st
             ref == s.conn[h]
         IN  IF ~ref.set \/ ref.cnx = NoCnx THEN Exc(s, "AttributeError")
             ELSE IF s.phys[ref.cnx] # "open"
             THEN Exc([s EXCEPT !.log.used = "dead"], "Error")
             ELSE LET u == [s EXCEPT !.log.used = "live"]
                      rows == s.committed + s.pending[ref.cnx]
                  IN
                  CASE d.stmt = "ok" ->
                         LET x == IF query = "insert"
                                  THEN [u EXCEPT !.pending =
                                          Upd(@, ref.cnx, @[ref.cnx] + 1)]
                                  ELSE u
                             f == CursorClose(x, UnreadResult(query, fetch,
                                                              rows))
                         IN  IF f.exc # "none" THEN Exc(f.st, f.exc)
                             ELSE OkVal(f.st, IF fetch = None THEN NoRows
                                              ELSE rows)
                    [] d.stmt = "error" ->
                         Exc(CursorClose(u, FALSE).st, "Error")
                    [] d.stmt = "lost" ->
                         Exc(CursorClose(
                               [u EXCEPT !.phys = Upd(@, ref.cnx, "dead"),
                                         !.pending = Upd(@, ref.cnx, 0)],
                               FALSE).st,
                             "Error")

\* a rollback() that discards nothing
RollbackKeepsPending(st, h) ==
    [st EXCEPT !.log.rollbacks = @ + 1]

\* self._connection.rollback(), line 205: on a live connection the session's
\* uncommitted statements are discarded; on a dead one the call itself fails
\* (and the server has discarded them with the session)
Rollback(st, h) ==
    LET p == st.conn[h].cnx IN
    [st EXCEPT !.log.rollbacks = @ + 1,
               !.pending = IF st.phys[p] = "open" THEN Upd(@, p, 0) ELSE @]

\* an except clause without the rollback of lines 204-205
UpdateFailedNoRollback(st, h) ==
    Exc(st, "Error")

\* the except clause of execute_update, lines 202-206
UpdateFailed(st, h) ==
    Exc(IF st.conn[h].set THEN Rollback(st, h) ELSE st, "Error")

\* the connection is lost while the server works on a request
Lost(st, p) ==
    [st EXCEPT !.phys = Upd(@, p, "dead"), !.pending = Upd(@, p, 0)]

\* DatabaseConnection.execute_update(query, params), lines 178-209
ExecuteUpdateS(st, h, d) ==
    LET c == LazyConnect(st, h, d) IN
    IF c.exc # "none" THEN c
    ELSE LET s == c.st
             ref == s.conn[h]
             p == ref.cnx
         IN  IF ~ref.set \/ p = NoCnx THEN Exc(s, "AttributeError")
             ELSE IF s.phys[p] # "open"
             THEN UpdateFailed([s EXCEPT !.log.used = "dead"], h)
             ELSE LET u == CursorClose([s EXCEPT !.log.used = "live"],
                                       FALSE).st
                      x == [u EXCEPT !.pending = Upd(@, p, @[p] + 1)]
                  IN  CASE d.stmt = "error" -> UpdateFailed(u, h)
                        [] d.stmt = "lost" -> UpdateFailed(Lost(u, p), h)
                        [] d.stmt = "ok" /\ d.commit = "error" ->
                             UpdateFailed(x, h)
                        [] d.stmt = "ok" /\ d.commit = "lost" ->
                             UpdateFailed(Lost(x, p), h)
                        [] d.stmt = "ok" /\ d.commit = "ok" ->
                             OkVal([x EXCEPT
                                      !.committed = @ + x.pending[p],
                                      !.pending = Upd(@, p, 0),
                                      !.log.commits = @ + 1],
                                   d.rows)

----------------------------------------------------------------------------
(* The calls of SpecConn: every handle shares one pool key *)

ConnConfig ==
    [host |-> "db", port |-> 3306, user |-> "app", database |-> "y",
     pool_size |-> ConnPoolSize]

Variants == {"pooled", "direct"}

\* the state the operations above act on
Cur ==
    [registry |-> registry, nPools |-> nPools, poolSize |-> poolSize,
     objPool |-> objPool, conn |-> conn, poolConn |-> poolConn,
     queue |-> queue, phys |-> phys, pending |-> pending,
     committed |-> committed, handed |-> handed, log |-> NoLog]

\* the connections a caller could borrow now; a pool not created yet will
\* offer all pool_size of them
Available(st) ==
    IF GetPoolKey(ConnConfig) \in DOMAIN st.registry
    THEN Len(st.queue[st.registry[GetPoolKey(ConnConfig)]])
    ELSE ConnPoolSize

NoCall ==
    [op |-> "none", h |-> 0, exc |-> "none", val |-> 0, commits |-> 0,
     rollbacks |-> 0, used |-> "none", opened |-> 0, rowcount |-> 0,
     before |-> 0, cnx |-> NoCnx, body |-> "none", probe |-> "none",
     cursor |-> "none"]

Called(op, h, r) ==
    [NoCall EXCEPT !.op = op, !.h = h, !.exc = r.exc, !.val = r.val,
                   !.commits = r.st.log.commits,
                   !.rollbacks = r.st.log.rollbacks,
                   !.used = r.st.log.used, !.opened = r.st.log.opened,
                   !.cursor = r.st.log.cursor]

\* the counters stay within the bounds of the model
Within(st) ==
    /\ st.nPools <= MaxPools
    /\ st.committed <= MaxCommitted
    /\ \A p \in AllConns : st.pending[p] <= MaxPending

\* the state after a call by handle h with outcome r; a scope running on
\* another handle follows what this call took from or gave to the pool
Becomes(h, r) ==
    /\ Within(r.st)
    /\ registry' = r.st.registry
    /\ nPools' = r.st.nPools
    /\ poolSize' = r.st.poolSize
    /\ objPool' = r.st.objPool
    /\ conn' = r.st.conn
    /\ poolConn' = r.st.poolConn
    /\ queue' = r.st.queue
    /\ phys' = r.st.phys
    /\ pending' = r.st.pending
    /\ committed' = r.st.committed
    /\ handed' = r.st.handed
    /\ UNCHANGED <<objCfg, pc, held, variant, qbVars, schemaVars>>

Follow(h, own, r) ==
    before' = [g \in Handles |->
                 IF g = h THEN own
                 ELSE IF scope[g] = "in"
                      THEN before[g] + Available(r.st) - Available(Cur)
                      ELSE before[g]]

Connect(h, d) ==
    \E r \in {ConnectS(Cur, h, d)} :
    /\ Becomes(h, r)
    /\ Follow(h, before[h], r)
    /\ last' = Called("connect", h, r)
    /\ UNCHANGED scope

Disconnect(h) ==
    \E r \in {DisconnectS(Cur, h)} :
    /\ Becomes(h, r)
    /\ Follow(h, before[h], r)
    /\ last' = [Called("disconnect", h, r) EXCEPT !.cnx = conn[h].cnx]
    /\ UNCHANGED scope

ExecuteQuery(h, d, query, fetch) ==
    \E r \in {ExecuteQueryS(Cur, h, d, query, fetch)} :
    /\ Becomes(h, r)
    /\ Follow(h, before[h], r)
    /\ last' = Called("execute_query", h, r)
    /\ UNCHANGED scope

ExecuteUpdate(h, d) ==
    \E r \in {ExecuteUpdateS(Cur, h, d)} :
    /\ Becomes(h, r)
    /\ Follow(h, before[h], r)
    /\ last' = [Called("execute_update", h, r) EXCEPT !.rowcount = d.rows]
    /\ UNCHANGED scope

Probes == {"answer", "raise"}

IsConnected(h, probe) ==
    \E r \in {IsConnectedProbe(Cur, h, probe)} :
    /\ Becomes(h, r)
    /\ Follow(h, before[h], r)
    /\ last' = [Called("is_connected", h, r) EXCEPT !.probe = probe]
    /\ UNCHANGED scope

\* get_db_context(config, use_pool), lines 404-407 (or __enter__, 211-214):
\* a new handle, connect(); when connect() raises, the finally clause runs
\* disconnect() and the block is never entered
ScopeEnter(h, d) ==
    /\ scope[h] = "out"
    /\ ~conn[h].set /\ ~poolConn[h].set
    /\ \E c \in {ConnectS(Cur, h, d)} :
       \E r \in {IF c.exc = "none" THEN c
                 ELSE Exc(DisconnectS(c.st, h).st, c.exc)} :
           /\ Becomes(h, r)
           /\ Follow(h, IF c.exc = "none" THEN Available(Cur) ELSE 0, r)
           /\ scope' = [scope EXCEPT ![h] =
                          IF c.exc = "none" THEN "in" ELSE "out"]
           /\ last' = Called("scope_enter", h, r)

\* lines 408-409 (or __exit__, 216-219): the block returned or raised, and
\* disconnect() runs
ScopeExit(h, body) ==
    /\ scope[h] = "in"
    /\ \E r \in {DisconnectS(Cur, h)} :
       /\ Becomes(h, r)
       /\ Follow(h, 0, r)
       /\ scope' = [scope EXCEPT ![h] = "out"]
       /\ last' = [Called("scope_exit", h, r) EXCEPT
                     !.before = before[h], !.cnx = conn[h].cnx,
                     !.body = body]

\* the server, or the network, drops a connection
Drop(p) ==
    /\ phys[p] = "open"
    /\ phys' = [phys EXCEPT ![p] = "dead"]
    /\ pending' = [pending EXCEPT ![p] = 0]
    /\ last' = [NoCall EXCEPT !.op = "drop", !.cnx = p]
    /\ UNCHANGED <<poolVars, variant, conn, poolConn, queue, committed,
                   handed, scope, before, qbVars, schemaVars>>

\* ConnectionPool.close_all_pools(), lines 353-365: the loop only logs, and
\* the registry is cleared; no pool and no connection is closed
CloseAllPools ==
    /\ registry' = << >>
    /\ last' = [NoCall EXCEPT !.op = "close_all_pools"]
    /\ UNCHANGED <<nPools, poolSize, objCfg, objPool, pc, held>>
    /\ UNCHANGED <<variant, conn, poolConn, queue, phys, pending, committed,
                   handed, scope, before, qbVars, schemaVars>>

----------------------------------------------------------------------------
(* QueryBuilder and build_where_clause, query_builder.py *)

\* SQL text is kept as the sequence of the pieces the code joins, so that
\* the placeholders in it can be counted in text order. The piece of a
\* placeholder remembers the condition it was written for and the position
\* in that condition's value (0: the value as a whole).
Text(s) == <<[text |-> s, cond |-> 0, arg |-> 0]>>
Placeholder(i, j) == <<[text |-> "%s", cond |-> i, arg |-> j]>>

\* sep.join(parts)
RECURSIVE Join(_, _)
Join(sep, parts) ==
    IF parts = << >> THEN << >>
    ELSE IF Len(parts) = 1 THEN parts[1]
    ELSE parts[1] \o sep \o Join(sep, Tail(parts))

\* str.upper() and str.strip() on the strings callers pass
Upper(s) ==
    CASE s = "like" -> "LIKE"
      [] s = "a" -> "A"
      [] s = "b" -> "B"
      [] s = "drop t" -> "DROP T"
      [] s = "desc" -> "DESC"
      [] s = "up" -> "UP"
      [] s = "regexp" -> "REGEXP"
      [] s = " in " -> " IN "
      [] s = "or" -> "OR"
      [] s = "xor" -> "XOR"
      [] OTHER -> s
Strip(s) ==
    CASE s = " in " -> "in"
      [] s = " a " -> "a"
      [] s = " AND " -> "AND"
      [] s = " IN " -> "IN"
      [] s = " " -> ""
      [] OTHER -> s

\* a value passed to where(): a scalar, or a list of scalars
Scalar(x) == [seq |-> FALSE, items |-> <<x>>]
List(s) == [seq |-> TRUE, items |-> s]

\* the parameters build() returns: None, or a tuple
NoParams == [none |-> TRUE, items |-> << >>]
Tuple(s) == [none |-> FALSE, items |-> s]

\* limit_value / offset_value not set (None), lines 42-43
NoLimit == -1

QueryCondition(field, operator, value, logic) ==
    [field |-> field, operator |-> operator, value |-> value,
     logic |-> logic]

\* QueryBuilder(table_name), lines 32-43
NewQueryBuilder(table_name) ==
    [table_name |-> table_name, select_fields |-> <<"*">>,
     where_conditions |-> << >>, order_by |-> << >>,
     limit_value |-> NoLimit, offset_value |-> NoLimit]

\* an entry of the list passed to select(): a string, or something else
Str(s) == [isstr |-> TRUE, s |-> s]
NotStr == [isstr |-> FALSE, s |-> ""]

\* the argument of select(): None, or a list of entries
NoFields == [none |-> TRUE, items |-> << >>]
Fields(items) == [none |-> FALSE, items |-> items]

\* any(keyword in field_upper for keyword in dangerous_keywords), lines
\* 62 and 73-74, on the field names callers pass
HasDangerousKeyword(field_upper) == field_upper \in {"DROP T"}

\* the loop of select() from the k-th entry on, lines 64-85: the first
\* ValueError ends it, blank entries are skipped
RECURSIVE ValidatedFields(_, _)
ValidatedFields(items, k) ==
    IF k > Len(items) THEN [exc |-> "none", fields |-> << >>]
    ELSE IF ~items[k].isstr THEN [exc |-> "ValueError", fields |-> << >>]
    ELSE LET field == Strip(items[k].s) IN
         IF field = "" THEN ValidatedFields(items, k + 1)
         ELSE IF HasDangerousKeyword(Upper(field))
         THEN [exc |-> "ValueError", fields |-> << >>]
         ELSE LET rest == ValidatedFields(items, k + 1) IN
              IF rest.exc # "none" THEN rest
              ELSE [exc |-> "none", fields |-> <<field>> \o rest.fields]

\* a select() that stores the validated list as it is
SelectedFieldsAsGiven(validated_fields) == validated_fields

\* lines 87-91: the wildcard when no entry is left
SelectedFields(validated_fields) ==
    IF validated_fields = << >> THEN <<"*">> ELSE validated_fields

\* a select() that falls back to the wildcard when an entry is rejected
QueryBuilderSelectResets(b, fields) ==
    IF fields.none \/ fields.items = << >>
    THEN [qb |-> [b EXCEPT !.select_fields = <<"*">>], exc |-> "none"]
    ELSE LET v == ValidatedFields(fields.items, 1) IN
         IF v.exc # "none"
         THEN [qb |-> [b EXCEPT !.select_fields = <<"*">>], exc |-> v.exc]
         ELSE [qb |-> [b EXCEPT !.select_fields = SelectedFields(v.fields)],
               exc |-> "none"]

\* QueryBuilder.select(fields), lines 45-94
QueryBuilderSelect(b, fields) ==
    IF fields.none \/ fields.items = << >>
    THEN [qb |-> [b EXCEPT !.select_fields = <<"*">>], exc |-> "none"]
    ELSE LET v == ValidatedFields(fields.items, 1) IN
         IF v.exc # "none" THEN [qb |-> b, exc |-> v.exc]
         ELSE [qb |-> [b EXCEPT !.select_fields = SelectedFields(v.fields)],
               exc |-> "none"]

\* QueryBuilder.order_by_field(field, direction), lines 127-144
QueryBuilderOrderByField(b, field, direction) ==
    LET direction_upper == Strip(Upper(direction))
    IN  IF Strip(field) = "" THEN [qb |-> b, exc |-> "ValueError"]
        ELSE IF direction_upper \notin {"ASC", "DESC"}
        THEN [qb |-> b, exc |-> "ValueError"]
        ELSE [qb |-> [b EXCEPT !.order_by =
                        Append(@, <<Strip(field), direction_upper>>)],
              exc |-> "none"]

\* an argument of limit(): an int, None, or a value of another type
IntArg(n) == [kind |-> "int", n |-> n]
NoneArg == [kind |-> "none", n |-> 0]
NotInt == [kind |-> "other", n |-> 0]

\* what limit() stores for an argument it accepted
Stored(arg) == IF arg.kind = "none" THEN NoLimit ELSE arg.n

\* a limit() that does not test the offset
QueryBuilderLimitAnyOffset(b, count, offset) ==
    IF count.kind # "int" \/ count.n < 0
    THEN [qb |-> b, exc |-> "ValueError"]
    ELSE [qb |-> [b EXCEPT !.limit_value = Stored(count),
                           !.offset_value = Stored(offset)],
          exc |-> "none"]

\* QueryBuilder.limit(count, offset), lines 146-163
QueryBuilderLimit(b, count, offset) ==
    IF count.kind # "int" \/ count.n < 0
    THEN [qb |-> b, exc |-> "ValueError"]
    ELSE IF offset.kind # "none" /\ (offset.kind # "int" \/ offset.n < 0)
    THEN [qb |-> b, exc |-> "ValueError"]
    ELSE [qb |-> [b EXCEPT !.limit_value = Stored(count),
                           !.offset_value = Stored(offset)],
          exc |-> "none"]

ValidOperators ==
    {"=", ">", "<", ">=", "<=", "!=", "<>", "LIKE", "IN", "NOT IN",
     "BETWEEN", "IS NULL", "IS NOT NULL"}

\* a where() without the test of the logic connector
QueryBuilderWhereAnyLogic(b, field, operator, value, logic) ==
    LET operator_upper == Strip(Upper(operator))
        logic_upper == Strip(Upper(logic))
        warned == operator_upper \notin ValidOperators
    IN  IF Strip(field) = ""
        THEN [qb |-> b, exc |-> "ValueError", warned |-> warned]
        ELSE [qb |-> [b EXCEPT !.where_conditions =
                        Append(@, QueryCondition(Strip(field),
                                                 Upper(operator), value,
                                                 logic_upper))],
              exc |-> "none", warned |-> warned]

\* QueryBuilder.where(field, operator, value, logic), lines 96-125
QueryBuilderWhere(b, field, operator, value, logic) ==
    LET operator_upper == Strip(Upper(operator))
        logic_upper == Strip(Upper(logic))
        warned == operator_upper \notin ValidOperators
    IN  IF logic_upper \notin {"AND", "OR"}
        THEN [qb |-> b, exc |-> "ValueError", warned |-> warned]
        ELSE IF Strip(field) = ""
        THEN [qb |-> b, exc |-> "ValueError", warned |-> warned]
        ELSE [qb |-> [b EXCEPT !.where_conditions =
                        Append(@, QueryCondition(Strip(field),
                                                 Upper(operator), value,
                                                 logic_upper))],
              exc |-> "none", warned |-> warned]

\* params_list.append(value), lines 314 and 318: the value is one parameter
Appended(value) == <<value>>

\* an extend() that takes the elements in the opposite order
ExtendedReversed(value) ==
    [j \in 1..Len(value.items) |->
        Scalar(value.items[Len(value.items) + 1 - j])]

\* params_list.extend(value), lines 297, 304 and 310: each element of the
\* value is a parameter
Extended(value) ==
    [j \in 1..Len(value.items) |-> Scalar(value.items[j])]

\* a placeholder list that is one marker short
PlaceholderListShort(i, n) ==
    Join(Text(", "), [j \in 1..(n - 1) |-> Placeholder(i, j)])

\* ", ".join(["%s"] * len(value)), lines 295 and 302
PlaceholderList(i, n) ==
    Join(Text(", "), [j \in 1..n |-> Placeholder(i, j)])

\* a BETWEEN clause with a comma between its two markers
BetweenPartComma(field, i) ==
    Text(field) \o Text(" BETWEEN ") \o Placeholder(i, 1) \o Text(", ")
      \o Placeholder(i, 2)

\* f"{field} BETWEEN %s AND %s", line 309
BetweenPart(field, i) ==
    Text(field) \o Text(" BETWEEN ") \o Placeholder(i, 1) \o Text(" AND ")
      \o Placeholder(i, 2)

\* the body of the loop of build_where_clause for the i-th condition,
\* lines 282-318: its clause and the parameters it contributes
ConditionPart(cond, i) ==
    LET field == cond.field
        operator == Upper(cond.operator)
        value == cond.value
        n == Len(value.items)
        Raise == [exc |-> "ValueError", part |-> << >>, params |-> << >>]
        Part(part, params) ==
            [exc |-> "none", part |-> part, params |-> params]
    IN  IF operator \in {"IS NULL", "IS NOT NULL"}
        THEN Part(Text(field) \o Text(" ") \o Text(operator), << >>)
        ELSE IF operator = "IN"
        THEN IF ~value.seq THEN Raise
             ELSE Part(Text(field) \o Text(" IN (")
                         \o PlaceholderList(i, n) \o Text(")"),
                       Extended(value))
        ELSE IF operator = "NOT IN"
        THEN IF ~value.seq THEN Raise
             ELSE Part(Text(field) \o Text(" NOT IN (")
                         \o PlaceholderList(i, n) \o Text(")"),
                       Extended(value))
        ELSE IF operator = "BETWEEN"
        THEN IF ~value.seq \/ n # 2 THEN Raise
             ELSE Part(BetweenPart(field, i), Extended(value))
        ELSE IF operator = "LIKE"
        THEN Part(Text(field) \o Text(" LIKE ") \o Placeholder(i, 0),
                  Appended(value))
        ELSE Part(Text(field) \o Text(" ") \o Text(operator) \o Text(" ")
                    \o Placeholder(i, 0),
                  Appended(value))

\* a condition prefixed with the connector of the condition before it
ConnectedByPrevious(conditions, i, condition_part) ==
    Text(conditions[i - 1].logic) \o Text(" ") \o condition_part

\* f"{logic} {condition_part}", line 324, for the i-th condition
Connected(conditions, i, condition_part) ==
    Text(conditions[i].logic) \o Text(" ") \o condition_part

\* the loop of build_where_clause from the i-th condition on, lines
\* 281-324: the first ValueError ends it
RECURSIVE WhereParts(_, _)
WhereParts(conditions, i) ==
    IF i > Len(conditions)
    THEN [exc |-> "none", parts |-> << >>, params |-> << >>]
    ELSE LET c == ConditionPart(conditions[i], i) IN
         IF c.exc # "none"
         THEN [exc |-> c.exc, parts |-> << >>, params |-> << >>]
         ELSE LET rest == WhereParts(conditions, i + 1) IN
              IF rest.exc # "none" THEN rest
              ELSE [exc |-> "none",
                    parts |->
                      <<IF i = 1 THEN c.part
                        ELSE Connected(conditions, i, c.part)>>
                        \o rest.parts,
                    params |-> c.params \o rest.params]

\* build_where_clause(conditions), lines 266-332
build_where_clause(conditions) ==
    IF conditions = << >>
    THEN [exc |-> "none", sql |-> << >>, params |-> << >>]
    ELSE LET w == WhereParts(conditions, 1) IN
         IF w.exc # "none"
         THEN [exc |-> w.exc, sql |-> << >>, params |-> << >>]
         ELSE [exc |-> "none", sql |-> Join(Text(" "), w.parts),
               params |-> w.params]

\* a WHERE clause written for an empty condition list too
WherePrefixedAlways(conditions, where_parts) ==
    Text("WHERE ") \o where_parts

\* where_clause of build(), lines 180 and 183-185
WherePrefixed(conditions, where_parts) ==
    IF conditions # << >> THEN Text("WHERE ") \o where_parts ELSE << >>

\* a LIMIT clause with the count before the offset
LimitClauseCountFirst(limit_value, offset_value) ==
    IF limit_value # NoLimit
    THEN IF offset_value # NoLimit
         THEN Text("LIMIT ") \o Text(ToString(limit_value))
                \o Text(", ") \o Text(ToString(offset_value))
         ELSE Text("LIMIT ") \o Text(ToString(limit_value))
    ELSE << >>

\* limit_clause of build(), lines 194-200
LimitClause(limit_value, offset_value) ==
    IF limit_value # NoLimit
    THEN IF offset_value # NoLimit
         THEN Text("LIMIT ") \o Text(ToString(offset_value))
                \o Text(", ") \o Text(ToString(limit_value))
         ELSE Text("LIMIT ") \o Text(ToString(limit_value))
    ELSE << >>

\* QueryBuilder.build(), lines 165-221
QueryBuilderBuild(b) ==
    LET select_clause ==
            Join(Text(", "), [k \in 1..Len(b.select_fields) |->
                                Text(b.select_fields[k])])
        from_clause == Text("FROM ") \o Text(b.table_name)
        w == build_where_clause(b.where_conditions)
        where_clause == WherePrefixed(b.where_conditions, w.sql)
        params_list ==
            IF b.where_conditions # << >> THEN w.params ELSE << >>
        order_by_clause ==
            IF b.order_by # << >>
            THEN Text("ORDER BY ")
                   \o Join(Text(", "),
                           [k \in 1..Len(b.order_by) |->
                              Text(b.order_by[k][1]) \o Text(" ")
                                \o Text(b.order_by[k][2])])
            ELSE << >>
        limit_clause == LimitClause(b.limit_value, b.offset_value)
        sql_parts ==
            <<Text("SELECT ") \o select_clause, from_clause>>
              \o (IF where_clause # << >> THEN <<where_clause>> ELSE << >>)
              \o (IF order_by_clause # << >>
                  THEN <<order_by_clause>> ELSE << >>)
              \o (IF limit_clause # << >> THEN <<limit_clause>> ELSE << >>)
    IN  IF b.where_conditions # << >> /\ w.exc # "none"
        THEN [exc |-> w.exc, sql |-> << >>, params |-> NoParams]
        ELSE [exc |-> "none",
              sql |-> Join(Text(" "), sql_parts) \o Text(";"),
              params |-> IF params_list # << >> THEN Tuple(params_list)
                         ELSE NoParams]

\* the loop of lines 256-257: where() for each condition from the i-th on;
\* the first ValueError ends it
RECURSIVE WhereEach(_, _, _)
WhereEach(b, conditions, i) ==
    IF i > Len(conditions) THEN [qb |-> b, exc |-> "none"]
    ELSE LET r == QueryBuilderWhere(b, conditions[i].field,
                                    conditions[i].operator,
                                    conditions[i].value, conditions[i].logic)
         IN  IF r.exc # "none" THEN [qb |-> r.qb, exc |-> r.exc]
             ELSE WhereEach(r.qb, conditions, i + 1)

\* the loop of lines 259-260: order_by_field() for each pair from the
\* i-th on
RECURSIVE OrderByEach(_, _, _)
OrderByEach(b, order_by, i) ==
    IF i > Len(order_by) THEN [qb |-> b, exc |-> "none"]
    ELSE LET r == QueryBuilderOrderByField(b, order_by[i][1], order_by[i][2])
         IN  IF r.exc # "none" THEN r
             ELSE OrderByEach(r.qb, order_by, i + 1)

\* `if limit:`, line 261: None and 0 are false; the value of another type
\* is one that is true
Truthy(arg) == arg.kind = "other" \/ (arg.kind = "int" /\ arg.n # 0)

\* what a function that ends with build() returns, or the error of the
\* call that raised before it
Built(r) ==
    IF r.exc # "none" THEN [exc |-> r.exc, sql |-> << >>, params |-> NoParams]
    ELSE QueryBuilderBuild(r.qb)

\* build_select_query(table_name, fields, conditions, order_by, limit),
\* lines 235-263
build_select_query(table_name, fields, conditions, order_by, limit) ==
    LET builder == [qb |-> NewQueryBuilder(table_name), exc |-> "none"]
        s == IF ~fields.none /\ fields.items # << >>
             THEN QueryBuilderSelect(builder.qb, fields) ELSE builder
        w == IF s.exc # "none" THEN s
             ELSE IF conditions # << >> THEN WhereEach(s.qb, conditions, 1)
             ELSE s
        o == IF w.exc # "none" THEN w
             ELSE IF order_by # << >> THEN OrderByEach(w.qb, order_by, 1)
             ELSE w
        l == IF o.exc # "none" THEN o
             ELSE IF Truthy(limit) THEN QueryBuilderLimit(o.qb, limit, NoneArg)
             ELSE o
    IN  Built([qb |-> l.qb, exc |-> l.exc])

----------------------------------------------------------------------------
(* The calls of SpecQB *)

NoQCall ==
    [op |-> "none", exc |-> "none", warned |-> FALSE, sql |-> << >>,
     params |-> NoParams, fields |-> NoFields, count |-> NoneArg,
     offset |-> NoneArg,
     call |-> [field |-> "", operator |-> "", value |-> Scalar(0),
               logic |-> ""],
     conditions |-> << >>, order_by |-> << >>]

\* the builder as constructed, no call made
QbFresh ==
    /\ qb = NewQueryBuilder("t")
    /\ qlast = NoQCall

\* what callers pass to where(): calls it accepts, and calls it rejects
OperatorInputs ==
    {"=", "like", "IN", "NOT IN", " in ", "BETWEEN", "IS NULL"}
ValueInputs == {Scalar(7), List(<<7, 8>>), List(<<8, 7, 9>>)}
WhereCalls ==
    [field : {"a"}, operator : OperatorInputs, value : ValueInputs,
     logic : {"AND", "or"}]
      \cup {[field |-> " ", operator |-> "=", value |-> Scalar(7),
             logic |-> "AND"],
            [field |-> "a", operator |-> "=", value |-> Scalar(7),
             logic |-> "xor"],
            [field |-> "a", operator |-> "IN", value |-> List(<< >>),
             logic |-> "AND"],
            [field |-> "a", operator |-> "NOT IN", value |-> List(<< >>),
             logic |-> "AND"],
            [field |-> "a", operator |-> "regexp", value |-> Scalar(7),
             logic |-> " AND "]}

Where(c) ==
    \E r \in {QueryBuilderWhere(qb, c.field, c.operator, c.value, c.logic)} :
    /\ Len(r.qb.where_conditions) <= MaxConds
    /\ qb' = r.qb
    /\ qlast' = [NoQCall EXCEPT !.op = "where", !.exc = r.exc,
                                !.warned = r.warned, !.call = c]
    /\ UNCHANGED <<poolVars, connVars, schemaVars>>

\* what callers pass to select(), order_by_field() and limit()
FieldsInputs ==
    {NoFields, Fields(<< >>), Fields(<<Str(" ")>>),
     Fields(<<Str(" "), Str("")>>), Fields(<<Str("a")>>),
     Fields(<<Str(" a "), Str(" "), Str("b")>>),
     Fields(<<Str("a"), NotStr>>), Fields(<<Str("b"), Str("drop t")>>)}
OrderInputs == [field : {"a", " "}, direction : {"ASC", "desc", "up"}]
CountInputs == {IntArg(-1), IntArg(0), IntArg(2), NotInt}
OffsetInputs == {NoneArg, IntArg(-2), IntArg(0), IntArg(1), NotInt}

\* the where() calls made next to the other calls
WhereFew ==
    {[field |-> "a", operator |-> "=", value |-> Scalar(7),
      logic |-> "AND"],
     [field |-> "a", operator |-> "IN", value |-> List(<<7, 8>>),
      logic |-> "or"],
     [field |-> "a", operator |-> "=", value |-> Scalar(7),
      logic |-> "xor"]}

Select(fields) ==
    \E r \in {QueryBuilderSelect(qb, fields)} :
    /\ qb' = r.qb
    /\ qlast' = [NoQCall EXCEPT !.op = "select", !.exc = r.exc,
                                !.fields = fields]
    /\ UNCHANGED <<poolVars, connVars, schemaVars>>

OrderByField(c) ==
    \E r \in {QueryBuilderOrderByField(qb, c.field, c.direction)} :
    /\ Len(r.qb.order_by) <= MaxOrder
    /\ qb' = r.qb
    /\ qlast' = [NoQCall EXCEPT !.op = "order_by_field", !.exc = r.exc]
    /\ UNCHANGED <<poolVars, connVars, schemaVars>>

Limit(count, offset) ==
    \E r \in {QueryBuilderLimit(qb, count, offset)} :
    /\ qb' = r.qb
    /\ qlast' = [NoQCall EXCEPT !.op = "limit", !.exc = r.exc,
                                !.count = count, !.offset = offset]
    /\ UNCHANGED <<poolVars, connVars, schemaVars>>

Build ==
    \E r \in {QueryBuilderBuild(qb)} :
    /\ qlast' = [NoQCall EXCEPT !.op = "build", !.exc = r.exc,
                                !.sql = r.sql, !.params = r.params]
    /\ UNCHANGED <<poolVars, connVars, qb, schemaVars>>

----------------------------------------------------------------------------
(* SchemaInspector.get_indexes, schema.py *)

\* the index names of the table in the order of ORDER BY INDEX_NAME
IndexNames == <<"idx_a", "PRIMARY", "uq_b">>
ColumnNames == {"a", "b", "c"}

\* the columns an index can have: up to MaxIndexColumns, none twice
ColumnLists ==
    {cols \in UNION {[1..n -> ColumnNames] : n \in 1..MaxIndexColumns} :
        \A i, j \in 1..Len(cols) : i # j => cols[i] # cols[j]}

\* the rows of INFORMATION_SCHEMA.STATISTICS for one index of the table
StatisticsRows(name, cols, non_unique, comment) ==
    {[INDEX_NAME |-> name, COLUMN_NAME |-> cols[j], SEQ_IN_INDEX |-> j,
      NON_UNIQUE |-> non_unique, INDEX_TYPE |-> "BTREE",
      INDEX_COMMENT |-> comment] : j \in 1..Len(cols)}

\* the rows the catalog can hold for a table: each index is absent, or has
\* its columns; the primary key is unique
Catalogs ==
    {p \cup a \cup u :
        p \in {{}} \cup {StatisticsRows("PRIMARY", cols, 0, "") :
                            cols \in ColumnLists},
        a \in {{}} \cup {StatisticsRows("idx_a", cols, 1, "") :
                            cols \in ColumnLists},
        u \in {{}} \cup {StatisticsRows("uq_b", cols, nu, "note") :
                            cols \in ColumnLists, nu \in {0, 1}}}

\* the rows of one index in the order of SEQ_IN_INDEX
RowsInOrder(rows, name) ==
    LET mine == {r \in rows : r.INDEX_NAME = name}
    IN  [j \in 1..Cardinality(mine) |->
            CHOOSE r \in mine : r.SEQ_IN_INDEX = j]

\* the query of lines 261-274 on the catalog: the rows whose index is not
\* PRIMARY, ordered by index name and position, from the k-th name on
RECURSIVE StatisticsQuery(_, _)
StatisticsQuery(rows, k) ==
    IF k > Len(IndexNames) THEN << >>
    ELSE (IF IndexNames[k] # "PRIMARY"
          THEN RowsInOrder(rows, IndexNames[k]) ELSE << >>)
           \o StatisticsQuery(rows, k + 1)

\* the position of the record named name in the list, 0 when it has none
Position(indexes_dict, name) ==
    IF \E i \in 1..Len(indexes_dict) : indexes_dict[i].name = name
    THEN CHOOSE i \in 1..Len(indexes_dict) : indexes_dict[i].name = name
    ELSE 0

\* a fresh record for the index of the row, lines 283-289
IndexRecord(row) ==
    [name |-> row.INDEX_NAME, columns |-> << >>,
     is_unique |-> (row.NON_UNIQUE = 0), type |-> row.INDEX_TYPE,
     comment |-> IF row.INDEX_COMMENT = "" THEN None ELSE row.INDEX_COMMENT]

\* a loop body that starts the record of the index again at each row
AddRowAfresh(indexes_dict, row) ==
    LET at == Position(indexes_dict, row.INDEX_NAME)
        one == [IndexRecord(row) EXCEPT !.columns = <<row.COLUMN_NAME>>]
    IN  IF at = 0 THEN Append(indexes_dict, one)
        ELSE [indexes_dict EXCEPT ![at] = one]

\* the body of the loop, lines 281-290; the dict keeps its keys in the
\* order of their insertion
AddRow(indexes_dict, row) ==
    LET at == Position(indexes_dict, row.INDEX_NAME)
        d == IF at = 0 THEN Append(indexes_dict, IndexRecord(row))
             ELSE indexes_dict
        i == IF at = 0 THEN Len(d) ELSE at
    IN  [d EXCEPT ![i].columns = Append(@, row.COLUMN_NAME)]

\* the loop of lines 279-292 over the first k rows of the result
RECURSIVE GroupRows(_, _)
GroupRows(result, k) ==
    IF k = 0 THEN << >> ELSE AddRow(GroupRows(result, k - 1), result[k])

\* get_indexes(table_name, database), lines 248-295, when the query
\* returns its rows
get_indexes(rows) ==
    LET result == StatisticsQuery(rows, 1)
    IN  GroupRows(result, Len(result))

NotCalled == [called |-> FALSE, val |-> << >>]

SchemaUnused ==
    /\ statistics = {}
    /\ indexes = NotCalled

GetIndexes ==
    /\ indexes' = [called |-> TRUE, val |-> get_indexes(statistics)]
    /\ UNCHANGED <<poolVars, connVars, qbVars, statistics>>

----------------------------------------------------------------------------
(* Specifications *)

PoolFresh ==
    /\ registry = << >>
    /\ nPools = 0
    /\ poolSize = [p \in PoolIds |-> 0]
    /\ objCfg = [o \in Objs |-> NoObj]
    /\ objPool = [o \in Objs |-> NoPool]
    /\ pc = [o \in Objs |-> "idle"]
    /\ held = [o \in Objs |-> NoResult]

ConnUnused ==
    /\ variant = [h \in Handles |-> "direct"]
    /\ conn = [h \in Handles |-> NoneConn]
    /\ poolConn = [h \in Handles |-> NoneConn]
    /\ queue = [id \in PoolIds |-> << >>]
    /\ phys = [p \in AllConns |-> "none"]
    /\ pending = [p \in AllConns |-> 0]
    /\ committed = 0
    /\ handed = [h \in Handles |-> 0]
    /\ scope = [h \in Handles |-> "out"]
    /\ before = [h \in Handles |-> 0]
    /\ last = NoCall

InitPool == PoolFresh /\ ConnUnused /\ QbFresh /\ SchemaUnused

\* get_pool() as one caller at a time runs it, lines 293-318 as a whole
GetPool(o) ==
    /\ objCfg[o] # NoObj
    /\ pc[o] = "idle"
    /\ \E create \in {"ok", "fail"} :
         LET r == GetPoolS([registry |-> registry, nPools |-> nPools,
                            poolSize |-> poolSize, objPool |-> objPool,
                            queue |-> queue, phys |-> phys],
                           o, [net |-> create])
         IN  /\ r.st.nPools <= MaxPools
             /\ registry' = r.st.registry
             /\ nPools' = r.st.nPools
             /\ poolSize' = r.st.poolSize
             /\ objPool' = r.st.objPool
             /\ queue' = r.st.queue
             /\ phys' = r.st.phys
             /\ held' = [held EXCEPT ![o] =
                           IF r.exc = "none" THEN Returned(r.val)
                           ELSE Raised(r.exc)]
    /\ UNCHANGED <<objCfg, pc>>
    /\ UNCHANGED <<variant, conn, poolConn, pending, committed, handed,
                   scope, before, last, qbVars, schemaVars>>

RaceNext ==
    \/ \E o \in Objs, config \in RaceConfigs : Construct(o, config)
    \/ \E o \in Objs : Check(o)
    \/ \E o \in Objs : CreateOk(o)
    \/ \E o \in Objs : CreateFail(o)
    \/ \E o \in Objs : Store(o)
    \/ \E o \in Objs : Reuse(o)

SpecRace == InitPool /\ [][RaceNext]_vars

\* callers that run get_connection(): get_pool() step by step, then the
\* borrow from the pool it returned
LendNext ==
    \/ RaceNext
    \/ \E o \in Objs, d \in ConnectChoices : Borrow(o, d)

SpecLend == InitPool /\ [][LendNext]_vars

SeqNext ==
    \/ \E o \in Objs, config \in DatabaseConfig : Construct(o, config)
    \/ \E o \in Objs : GetPool(o)

SpecSeq == InitPool /\ [][SeqNext]_vars

\* get_connection(config, use_pool) for every caller, lines 368-388
InitConn ==
    /\ registry = << >>
    /\ nPools = 0
    /\ poolSize = [p \in PoolIds |-> 0]
    /\ objCfg = [o \in Objs |-> ConnConfig]
    /\ objPool = [o \in Objs |-> NoPool]
    /\ pc = [o \in Objs |-> "idle"]
    /\ held = [o \in Objs |-> NoResult]
    /\ variant \in {v \in [Handles -> Variants] : v[1] = "pooled"}
    /\ conn = [h \in Handles |-> NoneConn]
    /\ poolConn = [h \in Handles |-> NoneConn]
    /\ queue = [id \in PoolIds |-> << >>]
    /\ phys = [p \in AllConns |-> "none"]
    /\ pending = [p \in AllConns |-> 0]
    /\ committed = 0
    /\ handed = [h \in Handles |-> 0]
    /\ scope = [h \in Handles |-> "out"]
    /\ before = [h \in Handles |-> 0]
    /\ last = NoCall
    /\ QbFresh
    /\ SchemaUnused

Fetches == {"all", "one", None}
\* a statement that returns no rows is run with fetch = None
QueryCalls ==
    {c \in [query : Queries, fetch : Fetches] :
        c.query = "insert" => c.fetch = None}
Bodies == {"return", "raise"}

ConnNext ==
    \/ \E h \in Handles, d \in ConnectChoices : Connect(h, d)
    \/ \E h \in Handles : Disconnect(h)
    \/ \E h \in Handles, d \in QueryChoices, c \in QueryCalls :
          ExecuteQuery(h, d, c.query, c.fetch)
    \/ \E h \in Handles, d \in UpdateChoices : ExecuteUpdate(h, d)
    \/ \E p \in AllConns : Drop(p)

SpecConn == InitConn /\ [][ConnNext]_vars

\* the calls of SpecConn, made inside and outside get_db_context blocks
ScopeNext ==
    \/ ConnNext
    \/ \E h \in Handles, d \in ConnectChoices : ScopeEnter(h, d)
    \/ \E h \in Handles, body \in Bodies : ScopeExit(h, body)

SpecScope == InitConn /\ [][ScopeNext]_vars

\* the calls of SpecConn and is_connected() called by itself
ProbeNext ==
    \/ ConnNext
    \/ \E h \in Handles, probe \in Probes : IsConnected(h, probe)

SpecProbe == InitConn /\ [][ProbeNext]_vars

\* the calls of SpecConn and the teardown of the registry
CloseNext ==
    \/ ConnNext
    \/ CloseAllPools

SpecClose == InitConn /\ [][CloseNext]_vars

QBNext ==
    \/ \E c \in WhereCalls : Where(c)
    \/ Build

SpecQB == InitPool /\ [][QBNext]_vars

\* what callers pass to build_select_query()
ConditionInputs ==
    {QueryCondition("a", "=", Scalar(7), "AND"),
     QueryCondition("a", "IN", List(<<7, 8>>), "or")}
ConditionLists == UNION {[1..n -> ConditionInputs] : n \in 0..MaxConds}
OrderLists ==
    UNION {[1..n -> {<<"a", "ASC">>, <<"b", "desc">>}] : n \in 0..MaxOrder}
LimitInputs == {NoneArg, IntArg(-1), IntArg(0), IntArg(2)}

BuildSelectQuery(fields, conditions, order_by, limit) ==
    \E r \in {build_select_query("t", fields, conditions, order_by, limit)} :
    /\ qlast' = [NoQCall EXCEPT !.op = "build_select_query", !.exc = r.exc,
                                !.sql = r.sql, !.params = r.params,
                                !.fields = fields, !.count = limit,
                                !.conditions = conditions,
                                !.order_by = order_by]
    /\ UNCHANGED <<poolVars, connVars, qb, schemaVars>>

\* build_select_query() on every input
SelectQueryNext ==
    \E fields \in FieldsInputs, conditions \in ConditionLists,
       order_by \in OrderLists, limit \in LimitInputs :
        BuildSelectQuery(fields, conditions, order_by, limit)

SpecSelectQuery == InitPool /\ [][SelectQueryNext]_vars

\* get_indexes() on a table with any catalog
InitSchema ==
    /\ PoolFresh /\ ConnUnused /\ QbFresh
    /\ statistics \in Catalogs
    /\ indexes = NotCalled

SpecSchema == InitSchema /\ [][GetIndexes]_vars

\* every call of the builder
BuilderNext ==
    \/ \E fields \in FieldsInputs : Select(fields)
    \/ \E c \in WhereFew : Where(c)
    \/ \E c \in OrderInputs : OrderByField(c)
    \/ \E count \in CountInputs, offset \in OffsetInputs : Limit(count, offset)
    \/ Build

SpecBuilder == InitPool /\ [][BuilderNext]_vars

----------------------------------------------------------------------------
(* Claims about the pool registry *)

\* the callers whose last get_pool() returned a pool instance
Holders == {o \in Objs : held[o].kind = "return"}

\* C1: when callers race through the first get_pool() for one key, a single
\* pool instance survives: every caller that has returned holds the instance
\* the registry maps its key to, and callers of one key hold the same one.
C1_SinglePoolSurvives ==
    \A o \in Holders :
        /\ GetPoolKey(objCfg[o]) \in DOMAIN registry
        /\ registry[GetPoolKey(objCfg[o])] = held[o].val
        /\ \A q \in Holders :
              GetPoolKey(objCfg[q]) = GetPoolKey(objCfg[o])
                  => held[q].val = held[o].val

\* C2: in a sequential run, configurations with equal (host, port, user,
\* database) get the same pool instance whatever their other fields,
\* configurations that differ in one of the four get distinct instances,
\* and a pool is created once per registry entry.
C2_SameFingerprintSamePool ==
    /\ \A o, q \in Holders :
           Fingerprint(objCfg[o]) = Fingerprint(objCfg[q])
               <=> held[o].val = held[q].val
    /\ nPools = Cardinality(DOMAIN registry)

----------------------------------------------------------------------------
(* Claims about connection handles, under SpecConn and SpecScope *)

\* C3: a scoped acquisition releases the physical connection on every exit
\* path, whatever the liveness of the connection at exit: after the scope
\* exits, the pool offers as many connections as before the scope was
\* entered (pooled), or the physical connection is closed (direct).
C3_ScopeReleases ==
    last.op = "scope_exit" =>
        /\ variant[last.h] = "pooled" => Available(Cur) = last.before
        /\ variant[last.h] = "direct" /\ last.cnx # NoCnx
               => phys[last.cnx] = "closed"

\* C4 as stated: execute_update commits exactly once and returns the
\* affected-row count when the statement succeeds; no call ends with both a
\* commit and an error, or with an error and no rollback.
C4_ErrorAlwaysRollsBack ==
    last.op = "execute_update" =>
        /\ last.exc = "none" =>
               /\ last.commits = 1
               /\ last.rollbacks = 0
               /\ last.val = last.rowcount
        /\ last.exc # "none" => last.commits = 0 /\ last.rollbacks >= 1

\* C4, amended: execute_update commits exactly once and returns the
\* affected-row count when the statement succeeds; a call that asked the
\* connection for a cursor and ends with an error has issued one rollback
\* and no commit; a call that ends with an error and no rollback is one
\* whose lazy connect() failed, and it has sent nothing and committed
\* nothing.
C4_UpdateCommitsOrRollsBack ==
    last.op = "execute_update" =>
        /\ last.exc \in {"none", "Error", "ConnectionError"}
        /\ last.exc = "none" =>
               /\ last.commits = 1
               /\ last.rollbacks = 0
               /\ last.used = "live"
               /\ last.val = last.rowcount
        /\ last.exc # "none" => last.commits = 0
        /\ last.exc # "none" /\ last.used # "none" => last.rollbacks = 1
        /\ last.exc # "none" /\ last.used = "none" =>
               /\ last.rollbacks = 0
               /\ last.opened = 0
               /\ ~IsConnectedS(Cur, last.h)

\* a failed execute_update whose statement reached a live connection
C4_RolledBack ==
    /\ last.op = "execute_update"
    /\ last.exc # "none"
    /\ last.used = "live"
    /\ last.rollbacks = 1

C7_ConnectIdempotent ==
    [][\A h \in Handles :
           IsConnectedS(Cur, h) /\ last'.op = "connect" /\ last'.h = h
               => /\ last'.exc = "none"
                  /\ last'.opened = 0
                  /\ UNCHANGED <<conn, poolConn, queue, phys, nPools>>]_vars

\* a connect() that returned without opening anything on a live handle
C7_ConnectedAgain ==
    /\ last.op = "connect"
    /\ last.exc = "none"
    /\ last.opened = 0
    /\ IsConnectedS(Cur, last.h)

\* C8: when connect() cannot obtain a connection, on either variant, the
\* caller receives a ConnectionError and the handle is left not connected.
C8_ConnectFailsWithConnectionError ==
    last.op = "connect" /\ last.exc # "none" =>
        /\ last.exc = "ConnectionError"
        /\ ~IsConnectedS(Cur, last.h)

\* C9: disconnect() never raises; after it returns, is_connected() is false
\* and the handle holds no physical connection; on a handle that holds
\* none it changes nothing.
C9_DisconnectLeavesNothing ==
    last.op = "disconnect" =>
        /\ last.exc = "none"
        /\ ~IsConnectedS(Cur, last.h)
        /\ ~conn[last.h].set
        /\ ~poolConn[last.h].set

----------------------------------------------------------------------------
(* Claims about the query builder, under SpecQB *)

\* the placeholders of a text, left to right
Placeholders(sql) == SelectSeq(sql, LAMBDA piece : piece.text = "%s")

\* the value a placeholder stands for
BoundValue(conditions, m) ==
    IF m.arg = 0 THEN conditions[m.cond].value
    ELSE Scalar(conditions[m.cond].value.items[m.arg])

\* the conditions whose value has the shape their operator needs
Compilable(conditions) ==
    \A i \in 1..Len(conditions) :
        LET c == conditions[i] IN
        /\ c.operator \in {"IN", "NOT IN"} => c.value.seq
        /\ c.operator = "BETWEEN" => c.value.seq /\ Len(c.value.items) = 2

\* C6: for every list of conditions added with where() whose values have
\* the shape their operators need, build() returns SQL text with as many
\* placeholders as it returns parameters (None standing for no parameter),
\* and the i-th parameter is the value the i-th placeholder of the text was
\* written for.
C6_PlaceholdersMatchParams ==
    qlast.op = "build" /\ Compilable(qb.where_conditions) =>
        /\ qlast.exc = "none"
        /\ LET ms == Placeholders(qlast.sql)
               ps == qlast.params.items
           IN  /\ Len(ms) = Len(ps)
               /\ \A k \in 1..Len(ms) :
                     ps[k] = BoundValue(qb.where_conditions, ms[k])
               /\ qlast.params.none <=> ms = << >>

\* a build() of an IN condition over three values and a BETWEEN condition
C6_BuiltInAndBetween ==
    /\ qlast.op = "build"
    /\ qlast.exc = "none"
    /\ Len(qb.where_conditions) = 2
    /\ qb.where_conditions[1].operator = "IN"
    /\ Len(qb.where_conditions[1].value.items) = 3
    /\ qb.where_conditions[2].operator = "BETWEEN"
    /\ Len(qlast.params.items) = 5

----------------------------------------------------------------------------
(* Claims about borrowing under concurrent callers, under SpecLend *)

\* the connections out of driver pool instance id
Out(id) == poolSize[id] - Len(queue[id])

\* the pool instances the callers of key k were given
InstancesOf(k) ==
    {objPool[o] : o \in {q \in Objs : /\ objCfg[q] # NoObj
                                      /\ objPool[q] # NoPool
                                      /\ GetPoolKey(objCfg[q]) = k}}

RECURSIVE SumOut(_)
SumOut(S) ==
    IF S = {} THEN 0
    ELSE LET id == CHOOSE x \in S : TRUE IN Out(id) + SumOut(S \ {id})

\* C11: in every reachable state, concurrent callers included, the number
\* of physical connections borrowed for one pool key is at most the
\* pool_size the pool of that key was created with.
C11_BorrowedWithinPoolSize ==
    \A k \in DOMAIN registry :
        SumOut(InstancesOf(k) \cup {registry[k]}) <= poolSize[registry[k]]

----------------------------------------------------------------------------
(* Claims about the teardown of the registry, under SpecClose *)

\* the physical connections driver pool instance id has opened
OpenedBy(id) == {p \in PoolConns : PoolOf(p) = id /\ phys[p] # "none"}

\* C12: after close_all_pools() returns, the registry is empty and every
\* pool that was in the registry is closed: none of its physical
\* connections is open.
C12_TeardownClosesPools ==
    last.op = "close_all_pools" =>
        /\ registry = << >>
        /\ \A id \in 1..nPools : \A p \in OpenedBy(id) : phys[p] # "open"

----------------------------------------------------------------------------
(* Claims about is_connected(), under SpecProbe *)

\* what the handle holds in the attribute is_connected() looks at
Held(h) == IF variant[h] = "pooled" THEN poolConn[h] ELSE conn[h]

\* C13: is_connected() never raises on either variant: it returns false
\* when the handle holds no connection, false when the liveness probe
\* raises, and otherwise what the probe answers, and it changes nothing.
C13_IsConnectedNeverRaises ==
    [][last'.op = "is_connected" =>
          /\ last'.exc = "none"
          /\ last'.val =
                IF ~Held(last'.h).set THEN 0
                ELSE IF last'.probe = "raise" THEN 0
                ELSE IF /\ Held(last'.h).cnx # NoCnx
                        /\ phys[Held(last'.h).cnx] = "open" THEN 1
                ELSE 0
          /\ UNCHANGED <<poolVars, conn, poolConn, queue, phys, pending,
                         committed, handed>>]_vars

\* is_connected() returned false because the probe raised on a connection
\* that is open
C13_ProbeRaisedOnLive ==
    /\ last.op = "is_connected"
    /\ last.probe = "raise"
    /\ last.val = 0
    /\ Held(last.h).set
    /\ Held(last.h).cnx # NoCnx
    /\ phys[Held(last.h).cnx] = "open"

----------------------------------------------------------------------------
(* Claims about the lazy connect of execute_query / execute_update,
   under SpecConn *)

\* C14: execute_query and execute_update connect lazily on both variants:
\* when the handle is not live at the start of the call, a live connection
\* is opened or borrowed before the statement, so the call never works on a
\* connection that is not live.
C14_StatementOnLiveConnection ==
    last.op \in {"execute_query", "execute_update"} => last.used # "dead"

----------------------------------------------------------------------------
(* Claims about the validation of condition values, under SpecQB *)

\* C15: validation errors are raised by the call that introduced the bad
\* input: where() rejects a value of the wrong shape for IN, NOT IN and
\* BETWEEN and appends nothing, so build() never raises a validation error
\* for the conditions where() accepted.
C15_BuildNeverRaises ==
    qlast.op = "build" => qlast.exc # "ValueError"

\* C16: no sequence of where() and build() calls produces SQL text in
\* which an IN or NOT IN clause has an empty placeholder list.
C16_NoEmptyInList ==
    qlast.op = "build" =>
        \A k \in 1..(Len(qlast.sql) - 1) :
            ~ /\ qlast.sql[k].text \in {" IN (", " NOT IN ("}
              /\ qlast.sql[k + 1].text = ")"

----------------------------------------------------------------------------
(* Claims about the clause of a single condition, under SpecQB *)

\* the texts of the pieces of the SQL text
Texts(sql) == [k \in 1..Len(sql) |-> sql[k].text]

\* the WHERE clause of a statement with no ORDER BY and no LIMIT: what
\* stands between "WHERE " and the closing ";"
Clause(sql) ==
    LET w == CHOOSE k \in 1..Len(sql) : sql[k].text = "WHERE "
    IN  Texts(SubSeq(sql, w + 1, Len(sql) - 1))

\* n markers separated by ", "
Markers(marker, n) ==
    [k \in 1..(2 * n - 1) |-> IF k % 2 = 1 THEN marker ELSE ", "]

\* the builder holds one condition, with this operator and a sequence as
\* its value, and build() was the last call
BuiltSingle(operators) ==
    /\ qlast.op = "build"
    /\ Len(qb.where_conditions) = 1
    /\ qb.where_conditions[1].operator \in operators
    /\ qb.where_conditions[1].value.seq

\* the clause `field IN (m, m, ...)` with n markers m, and the n elements
\* of the value as the parameters, in their order
InClauseWith(marker) ==
    LET cond == qb.where_conditions[1]
        n == Len(cond.value.items)
    IN  /\ qlast.exc = "none"
        /\ Clause(qlast.sql) =
              <<cond.field,
                IF cond.operator = "IN" THEN " IN (" ELSE " NOT IN (">>
                \o Markers(marker, n) \o <<")">>
        /\ qlast.params.items = [j \in 1..n |-> Scalar(cond.value.items[j])]

\* C18 as stated: for a single IN (or NOT IN) condition whose value is a
\* sequence of n elements the clause is `field IN (?, ?, ...)` with exactly
\* n `?` markers, and the parameters are the n elements in their order.
C18_InClauseQuestionMarks ==
    BuiltSingle({"IN", "NOT IN"}) => InClauseWith("?")

\* C18, amended: the clause is `field IN (%s, %s, ...)` (resp. NOT IN) with
\* exactly n `%s` markers, and the parameters are the n elements of the
\* value in their order.
C18_InClausePercentS ==
    BuiltSingle({"IN", "NOT IN"}) => InClauseWith("%s")

\* build() compiled a single IN condition with the value [8, 7, 9]
C18_BuiltInOfThree ==
    /\ BuiltSingle({"IN"})
    /\ qb.where_conditions[1].value = List(<<8, 7, 9>>)
    /\ qlast.params = Tuple(<<Scalar(8), Scalar(7), Scalar(9)>>)

\* the clause `field BETWEEN m AND m` with the two elements of the value
\* as the parameters, in their order; any other value is rejected
BetweenClauseWith(marker) ==
    LET cond == qb.where_conditions[1]
    IN  IF cond.value.seq /\ Len(cond.value.items) = 2
        THEN /\ qlast.exc = "none"
             /\ Clause(qlast.sql) =
                   <<cond.field, " BETWEEN ", marker, " AND ", marker>>
             /\ qlast.params =
                   Tuple(<<Scalar(cond.value.items[1]),
                           Scalar(cond.value.items[2])>>)
        ELSE qlast.exc = "ValueError"

BuiltBetween ==
    /\ qlast.op = "build"
    /\ Len(qb.where_conditions) = 1
    /\ qb.where_conditions[1].operator = "BETWEEN"

\* C19 as stated: for a BETWEEN condition whose value is [a, b] the clause
\* is `field BETWEEN ? AND ?` and the parameters are a then b; a value that
\* is not a sequence of exactly two elements is rejected.
C19_BetweenQuestionMarks ==
    BuiltBetween => BetweenClauseWith("?")

\* C19, amended: the clause is `field BETWEEN %s AND %s` and the parameters
\* are a then b; build() rejects a value that is not a sequence of exactly
\* two elements.
C19_BetweenPercentS ==
    BuiltBetween => BetweenClauseWith("%s")

\* build() compiled a single BETWEEN condition with the value [7, 8]
C19_BuiltBetweenPair ==
    /\ BuiltBetween
    /\ qb.where_conditions[1].value = List(<<7, 8>>)
    /\ qlast.params = Tuple(<<Scalar(7), Scalar(8)>>)

----------------------------------------------------------------------------
(* Claims about the statement as a whole, under SpecBuilder *)

\* C17: for a builder with an empty condition list, whatever select,
\* order_by_field and limit calls were made, build() returns SQL text with
\* no WHERE clause and produces no parameters; build_where_clause([])
\* returns the empty clause and the empty parameter tuple.
C17_NoConditionsNoWhere ==
    /\ build_where_clause(<< >>) =
          [exc |-> "none", sql |-> << >>, params |-> << >>]
    /\ qlast.op = "build" /\ qb.where_conditions = << >> =>
          /\ qlast.exc = "none"
          /\ \A k \in 1..Len(qlast.sql) :
                qlast.sql[k].text \notin {"WHERE ", "%s"}
          /\ qlast.params = NoParams

\* build() on a builder with fields, an ordering and a limit, and no
\* condition
C17_BuiltWithoutConditions ==
    /\ qlast.op = "build"
    /\ qb.where_conditions = << >>
    /\ qb.select_fields = <<"a", "b">>
    /\ qb.order_by # << >>
    /\ qb.limit_value # NoLimit
    /\ qb.offset_value # NoLimit
    /\ qlast.sql # << >>

\* the entries of a select() argument are all blank strings
AllBlank(fields) ==
    \A k \in 1..Len(fields.items) :
        fields.items[k].isstr /\ Strip(fields.items[k].s) = ""

----------------------------------------------------------------------------
(* Claims about limit(), under SpecBuilder *)

\* the last pieces of the SQL text
LastTexts(sql, n) == Texts(SubSeq(sql, Len(sql) - n + 1, Len(sql)))

\* C21: when limit(count, offset) was last called with both values,
\* build() emits LIMIT <offset>, <count>, the offset first; with no offset
\* it emits LIMIT <count>; when limit was never called it emits no LIMIT
\* clause; the LIMIT values are in the text and add no parameters.
C21_LimitOffsetFirst ==
    /\ qlast.op = "limit" /\ qlast.exc = "none" =>
          /\ qb.limit_value = qlast.count.n
          /\ qb.offset_value =
                IF qlast.offset.kind = "none" THEN NoLimit
                ELSE qlast.offset.n
    /\ qlast.op = "build" /\ qlast.exc = "none" =>
          /\ IF qb.limit_value = NoLimit
             THEN \A k \in 1..Len(qlast.sql) : qlast.sql[k].text # "LIMIT "
             ELSE IF qb.offset_value # NoLimit
             THEN /\ Len(qlast.sql) >= 5
                  /\ LastTexts(qlast.sql, 5) =
                        <<"LIMIT ", ToString(qb.offset_value), ", ",
                          ToString(qb.limit_value), ";">>
             ELSE /\ Len(qlast.sql) >= 3
                  /\ LastTexts(qlast.sql, 3) =
                        <<"LIMIT ", ToString(qb.limit_value), ";">>
          /\ qlast.params =
                QueryBuilderBuild([qb EXCEPT !.limit_value = NoLimit,
                                             !.offset_value = NoLimit]).params

\* build() after limit(2, offset=1), on a builder with a condition
C21_BuiltLimitWithOffset ==
    /\ qlast.op = "build"
    /\ qb.limit_value = 2
    /\ qb.offset_value = 1
    /\ qb.where_conditions # << >>
    /\ LastTexts(qlast.sql, 5) = <<"LIMIT ", "1", ", ", "2", ";">>

\* the stored limit and offset are absent or non-negative
LimitStateValid ==
    /\ qb.limit_value = NoLimit \/ qb.limit_value >= 0
    /\ qb.offset_value = NoLimit \/ qb.offset_value >= 0

\* the arguments of a limit() call that the specification rejects
BadLimitArgs(count, offset) ==
    \/ count.kind # "int"
    \/ count.n < 0
    \/ offset.kind = "other"
    \/ offset.kind = "int" /\ offset.n < 0

\* C22: limit(count, offset) raises a validation error when count is
\* negative or not an integer, or when offset is given and is negative or
\* not an integer, and a raising call leaves the stored limit and offset
\* unchanged; the stored limit and offset are each absent or a
\* non-negative integer.
C22_LimitValidates ==
    /\ []LimitStateValid
    /\ [][qlast'.op = "limit" =>
            IF BadLimitArgs(qlast'.count, qlast'.offset)
            THEN qlast'.exc = "ValueError" /\ qb' = qb
            ELSE qlast'.exc = "none"]_vars

\* limit(-1) raised on a builder whose limit was 2 with offset 1, and the
\* builder still holds them
C22_RejectedLimitKeepsState ==
    /\ qlast.op = "limit"
    /\ qlast.exc = "ValueError"
    /\ qlast.count = IntArg(-1)
    /\ qb.limit_value = 2
    /\ qb.offset_value = 1

----------------------------------------------------------------------------
(* Claims about where(), under SpecQB *)

\* the logic values passed that are AND or OR up to case and blanks
LogicAccepted == {"AND", "or", " AND "}

\* the operators passed that are in the fixed set up to case and blanks
OperatorsRecognised ==
    {"=", "like", "IN", "NOT IN", " in ", "BETWEEN", "IS NULL"}

\* the placeholders of the text follow the order of the conditions
InInsertionOrder(sql) ==
    \A k, l \in 1..Len(sql) :
        k < l /\ sql[k].text = "%s" /\ sql[l].text = "%s" =>
            sql[k].cond <= sql[l].cond

\* C23: where() rejects with a validation error any logic value that is
\* not AND or OR (up to case and blanks) and appends nothing then; an
\* operator outside the recognised set is accepted with a warning and
\* appended; every accepted call appends exactly one condition at the end
\* of the list, and the conditions are compiled in insertion order.
C23_WhereValidatesLogic ==
    /\ [](qlast.op = "build" => InInsertionOrder(qlast.sql))
    /\ [][qlast'.op = "where" =>
            /\ qlast'.call.logic \notin LogicAccepted =>
                  qlast'.exc = "ValueError" /\ qb' = qb
            /\ qlast'.call.logic \in LogicAccepted
                 /\ Strip(qlast'.call.field) # "" => qlast'.exc = "none"
            /\ qlast'.warned <=>
                  qlast'.call.operator \notin OperatorsRecognised
            /\ qlast'.exc = "none" =>
                  /\ Len(qb'.where_conditions) = Len(qb.where_conditions) + 1
                  /\ SubSeq(qb'.where_conditions, 1,
                            Len(qb.where_conditions)) = qb.where_conditions
                  /\ qb' = [qb EXCEPT !.where_conditions =
                                         qb'.where_conditions]]_vars

\* where() accepted an operator outside the set, with a warning, as the
\* second condition of the builder
C23_UnknownOperatorAppended ==
    /\ qlast.op = "where"
    /\ qlast.exc = "none"
    /\ qlast.warned
    /\ Len(qb.where_conditions) = 2
    /\ qb.where_conditions[2].operator = "REGEXP"

----------------------------------------------------------------------------
(* Claims about the joining of the conditions, under SpecQB *)

\* the clauses of the conditions from the i-th on, left to right, each but
\* the first after its own connector, with nothing else around them
RECURSIVE JoinedFrom(_, _)
JoinedFrom(conditions, i) ==
    IF i > Len(conditions) THEN << >>
    ELSE (IF i = 1 THEN << >> ELSE <<" ", conditions[i].logic, " ">>)
           \o Texts(ConditionPart(conditions[i], i).part)
           \o JoinedFrom(conditions, i + 1)

\* C24: in the compiled WHERE clause of n conditions the first condition
\* contributes only its own clause, for every i > 1 the i-th clause is
\* preceded by the i-th condition's own connector, and the clauses are
\* joined left to right in list order with no grouping parentheses added.
C24_OwnConnector ==
    /\ qlast.op = "build"
    /\ qlast.exc = "none"
    /\ qb.where_conditions # << >>
    => Clause(qlast.sql) = JoinedFrom(qb.where_conditions, 1)

\* build() compiled two conditions, the first stored with OR and the
\* second with AND
C24_BuiltOrThenAnd ==
    /\ qlast.op = "build"
    /\ qlast.exc = "none"
    /\ Len(qb.where_conditions) = 2
    /\ qb.where_conditions[1].logic = "OR"
    /\ qb.where_conditions[2].logic = "AND"
    /\ qb.where_conditions[2].operator = "IN"

----------------------------------------------------------------------------
(* Claims about operators written with blanks, under SpecQB *)

\* C26: an operator that where() recognises as IN once upper-cased and
\* trimmed is compiled with one placeholder per element of its value,
\* never with a single placeholder bound to the whole sequence.
C26_RecognisedInCompiledAsIn ==
    qlast.op = "build" /\ qlast.exc = "none" =>
        \A i \in 1..Len(qb.where_conditions) :
            /\ Strip(qb.where_conditions[i].operator) = "IN"
            /\ qb.where_conditions[i].value.seq
            => Cardinality({k \in 1..Len(qlast.sql) :
                              /\ qlast.sql[k].text = "%s"
                              /\ qlast.sql[k].cond = i})
                 = Len(qb.where_conditions[i].value.items)

----------------------------------------------------------------------------
(* Claims about build_select_query(), under SpecSelectQuery *)

\* what a QueryBuilder returns on which select, where, order_by_field and
\* limit were called with these arguments, and then build(); no limit()
\* call is made for the limit None
ViaBuilder(table_name, fields, conditions, order_by, limit) ==
    LET s == QueryBuilderSelect(NewQueryBuilder(table_name), fields)
        w == IF s.exc # "none" THEN s ELSE WhereEach(s.qb, conditions, 1)
        o == IF w.exc # "none" THEN w ELSE OrderByEach(w.qb, order_by, 1)
        l == IF o.exc # "none" THEN o
             ELSE IF limit.kind # "none"
             THEN QueryBuilderLimit(o.qb, limit, NoneArg)
             ELSE o
    IN  Built([qb |-> l.qb, exc |-> l.exc])

\* C27: build_select_query(table, fields, conditions, order_by, limit)
\* returns the same (SQL, parameters) pair as a QueryBuilder on which
\* select, where, order_by_field and limit were called with the same
\* arguments and then build(), for every input, including limit = 0 and an
\* empty field list.
C27_SameAsBuilder ==
    qlast.op = "build_select_query" =>
        LET v == ViaBuilder("t", qlast.fields, qlast.conditions,
                            qlast.order_by, qlast.count)
        IN  /\ qlast.exc = v.exc
            /\ qlast.sql = v.sql
            /\ qlast.params = v.params

----------------------------------------------------------------------------
(* Claims about what a call leaves unchanged, under SpecBuilder *)

\* C28: a select(), where() or order_by_field() call that raises leaves
\* the field list, the condition list and the sort-key list as they were;
\* build() changes nothing of the builder, so a second build() returns
\* what the first returned.
C28_FailedCallsChangeNothing ==
    /\ [](qlast.op = "build" =>
            LET again == QueryBuilderBuild(qb)
            IN  /\ qlast.exc = again.exc
                /\ qlast.sql = again.sql
                /\ qlast.params = again.params)
    /\ [][/\ qlast'.op \in {"select", "where", "order_by_field"}
             /\ qlast'.exc # "none"
             => /\ qb'.select_fields = qb.select_fields
                /\ qb'.where_conditions = qb.where_conditions
                /\ qb'.order_by = qb.order_by]_vars
    /\ [][qlast'.op = "build" => qb' = qb]_vars

\* select(['a', 5]) raised on its second entry and the builder still holds
\* the two fields of an earlier select()
C28_FailedSelectKeepsFields ==
    /\ qlast.op = "select"
    /\ qlast.exc = "ValueError"
    /\ qlast.fields = Fields(<<Str("a"), NotStr>>)
    /\ qb.select_fields = <<"a", "b">>
    /\ qb.where_conditions # << >>
    /\ qb.order_by # << >>

----------------------------------------------------------------------------
(* Claims about get_indexes(), under SpecSchema *)

\* the names of the indexes of the catalog other than the primary key
SecondaryIndexes ==
    {r.INDEX_NAME : r \in statistics} \ {"PRIMARY"}

\* C25: for the rows the catalog returns for a table, ordered by index
\* name and position, get_indexes returns exactly one record per distinct
\* index name, none named PRIMARY, each with the index's columns in row
\* order, none lost or duplicated, and with the uniqueness flag true
\* exactly when the index's rows have NON_UNIQUE = 0.
C25_OneRecordPerIndex ==
    indexes.called =>
        /\ {indexes.val[i].name : i \in 1..Len(indexes.val)} = SecondaryIndexes
        /\ \A i, j \in 1..Len(indexes.val) :
              i # j => indexes.val[i].name # indexes.val[j].name
        /\ \A i \in 1..Len(indexes.val) :
              LET mine == {r \in statistics :
                             r.INDEX_NAME = indexes.val[i].name}
              IN  /\ Len(indexes.val[i].columns) = Cardinality(mine)
                  /\ \A r \in mine :
                        indexes.val[i].columns[r.SEQ_IN_INDEX] = r.COLUMN_NAME
                  /\ indexes.val[i].is_unique <=>
                        \A r \in mine : r.NON_UNIQUE = 0

\* get_indexes() ran on a table with a primary key, a two-column index and
\* a unique index
C25_GroupedTwoIndexes ==
    /\ indexes.called
    /\ \E r \in statistics : r.INDEX_NAME = "PRIMARY"
    /\ Len(indexes.val) = 2
    /\ indexes.val[1].columns = <<"b", "a">>
    /\ ~indexes.val[1].is_unique
    /\ indexes.val[2].is_unique

----------------------------------------------------------------------------
(* Claims about the cursors of execute_query / execute_update, under
   SpecConn *)

\* C29: every cursor opened by execute_query or execute_update is closed
\* before the call returns or raises, on every exit path, so no call
\* leaves an open cursor on the connection.
C29_NoCursorLeftOpen ==
    last.op \in {"execute_query", "execute_update"} => last.cursor # "open"

----------------------------------------------------------------------------
(* Claims about a failed pool creation, under SpecSeq *)

\* C30: when creating the pool for a key fails, the error reaches the
\* caller and the registry is left without an entry for that key, with
\* its entries for other keys untouched, so the next get_pool() for the
\* key attempts the creation again.
C30_FailedCreationStoresNothing ==
    [][\A o \in Objs :
          held'[o].kind = "Error" /\ held[o].kind # "Error" =>
              /\ registry' = registry
              /\ GetPoolKey(objCfg[o]) \notin DOMAIN registry'
              /\ objPool'[o] = objPool[o]
              /\ nPools' = nPools]_vars

\* the creation failed for one caller while the registry held the pool of
\* another key: the failed key has no entry and the other entry is there
C30_FailedNextToOtherKey ==
    \E o, q \in Objs :
        /\ objCfg[o] # NoObj /\ objCfg[q] # NoObj
        /\ held[o].kind = "Error"
        /\ GetPoolKey(objCfg[o]) \notin DOMAIN registry
        /\ held[q].kind = "return"
        /\ GetPoolKey(objCfg[q]) \in DOMAIN registry
        /\ registry[GetPoolKey(objCfg[q])] = held[q].val

====
